---- MODULE Spec2Model ----
(***************************************************************************)
(* The three scripts of the repository as one state machine.  A process    *)
(* runs exactly one script (variable script); the scripts share nothing    *)
(* but the file system each of them writes to.                             *)
(*                                                                         *)
(*   src/Strata/pathos.py    roads shapefile cache, satellite imagery,     *)
(*                           interactive map with the on_click callback    *)
(*   src/VFPL/LizorGun.py    command loop around the optical simulation    *)
(*   src/Strata/cocuta.py    the route report and its two tables           *)
(*                                                                         *)
(* Geographic coordinates are integers in units of 1e-5 degree.  Decimal   *)
(* literals of the optics script are pairs <<hi, lo>> standing for         *)
(* hi * 1e-6 + lo * 1e-14, which holds every literal of the script exactly.*)
(***************************************************************************)
EXTENDS Integers, Sequences, FiniteSets, TLC

(* ---- bounds of the model ---- *)
MaxRuns == 2
MaxEvents == 2
MaxLines == 3

None == "<None>"

\* A name not bound yet is <<>>; bound to the value v it is <<v>>.
Unbound == <<>>

VARIABLES
  script,         \* which script this process runs
  pc,             \* position in the script
  status,         \* "running" | "exited" (exit()) | "crashed" (uncaught exception) | "finished"
  printed,        \* the last line written to stdout
  run,            \* ordinal of this run of the script
  \* ---- pathos.py ----
  config,         \* SHConfig fields set from the environment
  shapefile_dir,  \* data/shapefiles exists
  shapefiles,     \* extensions e with data/shapefiles/gis_osm_roads_free_1<e> present
  temp_dir,       \* this run's tempfile.mkdtemp(): "none" | "exists" | "deleted"
  temp_files,     \* files inside temp_dir
  leaked,         \* temporary directories earlier runs left behind
  archive,        \* content of the downloaded zip
  downloads,      \* HTTP downloads issued by this run
  roads_shp_temp, \* path of the roads layer found under temp_dir, or None
  ext_i,          \* index of the move loop of lines 75-78
  roads,          \* module-level GeoDataFrame roads (None before it is bound)
  image,          \* initial satellite image
  requests,       \* imagery requests issued by this run
  fig,            \* the main figure exists
  connected,      \* on_click is registered for button_press_event
  xlim, ylim,     \* view limits of the main axes
  event,          \* the last event the canvas delivered
  events,         \* number of events delivered
  handlers,       \* invocations of on_click that issued a request
  photos,         \* names of the PNG files saved
  ended,          \* <<pc, status>> at the end of the previous run, <<>> in the first
  \* ---- LizorGun.py ----
  frequency,      \* spark frequency
  user_input,     \* input("> ").lower() of the last prompt
  lines,          \* the lines read from stdin so far, as typed
  sims,           \* simulation runs started
  heap,           \* every surface list A handed to Kos.system, in order of construction
  keepers,        \* keepers[i]: raylist of the raykeeper made for heap[i]
  bound,          \* the loop's names for systems and raykeepers: index into heap, 0 unbound
  calcs,          \* the calls of calculate_peak_power_for_temp made so far
  exception,      \* class of the last exception raised, or None
  \* ---- cocuta.py ----
  doc,            \* body of the Document: headings, paragraphs, page breaks, tables
  stmt,           \* index of the statement of the script body that runs next
  loop,           \* add_table's loop positions: header i, data cell k
  saved           \* the .docx file has been written

pathosVars == <<config, shapefile_dir, shapefiles, temp_dir, temp_files, leaked,
                archive, downloads, roads_shp_temp, ext_i, roads, image,
                requests, fig, connected, xlim, ylim, event, events, handlers,
                photos, ended>>

lizorVars == <<frequency, user_input, lines, sims, heap, keepers, bound, calcs>>

cocutaVars == <<doc, stmt, loop, saved>>

vars == <<script, pc, status, printed, run, exception, pathosVars, lizorVars, cocutaVars>>

(***************************************************************************)
(*                              pathos.py                                  *)
(***************************************************************************)

\* Values an environment variable can have: unset, empty, set.
EnvValues == {None, "", "cred"}

\* Python truthiness of os.getenv's result, as all([...]) tests it.
Truthy(v) == v # None /\ v # ""

\* Mutant of HasCredentials: any() where the script has all().
HasCredentialsAny(c) ==
  Truthy(c.instance_id) \/ Truthy(c.sh_client_id) \/ Truthy(c.sh_client_secret)

HasCredentials(c) ==
  Truthy(c.instance_id) /\ Truthy(c.sh_client_id) /\ Truthy(c.sh_client_secret)

NoConfig == [instance_id |-> None, sh_client_id |-> None, sh_client_secret |-> None]

\* for ext in [".shp", ".shx", ".dbf", ".prj"]
ExtOrder == <<".shp", ".shx", ".dbf", ".prj">>
Exts == {ExtOrder[i] : i \in 1..Len(ExtOrder)}

\* Mutant of CacheHit: the test looks for the last file the script moves.
CacheHitOnPrj == ".prj" \in shapefiles

\* os.path.exists(roads_shp_path)
CacheHit == ".shp" \in shapefiles

\* What the download can answer: a status code, or the request raising.
Responses == {"200", "404", "ConnectionError"}

\* What the zip at the fixed URL can hold: the roads layer complete, the
\* layer without its .shp, the layer without its .prj, or not a zip at all.
Archives ==
  { [valid |-> TRUE,  members |-> Exts],
    [valid |-> TRUE,  members |-> Exts \ {".shp"}],
    [valid |-> TRUE,  members |-> Exts \ {".prj"}],
    [valid |-> FALSE, members |-> {}] }

NoArchive == [valid |-> FALSE, members |-> {}]

\* palacio_coords and delta, in 1e-5 degree
palacio_lat == 1904330
palacio_lon == -9819810
delta == 900

bbox_coords == <<palacio_lon - delta, palacio_lat - delta,
                 palacio_lon + delta, palacio_lat + delta>>

\* The features of the roads layer: fclass and a position.
ShapefileRoads ==
  { [osm_id |-> 1, fclass |-> "motorway",    lon |-> palacio_lon,        lat |-> palacio_lat],
    [osm_id |-> 2, fclass |-> "primary",     lon |-> palacio_lon + 850,  lat |-> palacio_lat],
    [osm_id |-> 3, fclass |-> "residential", lon |-> palacio_lon + 100,  lat |-> palacio_lat + 100],
    [osm_id |-> 4, fclass |-> "trunk",       lon |-> palacio_lon + 1200, lat |-> palacio_lat],
    [osm_id |-> 5, fclass |-> "tertiary",    lon |-> palacio_lon - 5000, lat |-> palacio_lat + 5000] }

MainClasses == {"motorway", "trunk", "primary", "secondary", "tertiary"}

\* gdf.cx[x0:x1, y0:y1]
Cx(gdf, b) == {r \in gdf : b[1] <= r.lon /\ r.lon <= b[3] /\ b[2] <= r.lat /\ r.lat <= b[4]}

PathosStart ==
  /\ pc = "config"
  /\ status = "running"
  /\ printed = None
  /\ exception = None
  /\ config = NoConfig
  /\ temp_dir = "none"
  /\ temp_files = {}
  /\ archive = NoArchive
  /\ downloads = 0
  /\ roads_shp_temp = None
  /\ ext_i = 0
  /\ roads = Unbound
  /\ image = None
  /\ requests = 0
  /\ fig = FALSE
  /\ connected = FALSE
  /\ xlim = <<0, 0>>
  /\ ylim = <<0, 0>>
  /\ event = Unbound
  /\ events = 0
  /\ handlers = <<>>

\* The file system the first run finds.
PathosInit ==
  /\ PathosStart
  /\ run = 1
  /\ leaked = 0
  /\ photos = {}
  /\ ended = <<>>
  /\ shapefiles \in {{}, {".shp"}, Exts}
  /\ shapefile_dir \in BOOLEAN
  /\ shapefiles # {} => shapefile_dir

At(s, p) == script = s /\ status = "running" /\ pc = p

\* lines 23-31
CheckCredentials ==
  /\ At("pathos", "config")
  /\ \E iid \in EnvValues, cid \in EnvValues, sec \in EnvValues :
       LET c == [instance_id |-> iid, sh_client_id |-> cid, sh_client_secret |-> sec]
       IN /\ config' = c
          /\ IF HasCredentials(c)
               THEN /\ pc' = "makedirs"
                    /\ UNCHANGED <<status, printed>>
               ELSE /\ printed' = "Asegúrate de tener SENTINEL_INSTANCE_ID, SENTINEL_CLIENT_ID y SENTINEL_CLIENT_SECRET."
                    /\ status' = "exited"
                    /\ pc' = pc
  /\ UNCHANGED <<cocutaVars, lizorVars, ended, exception, script, run, shapefile_dir, shapefiles, temp_dir, temp_files, leaked,
                 archive, downloads, roads_shp_temp, ext_i, roads, image,
                 requests, fig, connected, xlim, ylim, event, events, handlers, photos>>

\* lines 33-39, 83-84
MakeDirs ==
  /\ At("pathos", "makedirs")
  /\ shapefile_dir' = TRUE
  /\ IF CacheHit
       THEN /\ printed' = "Shapefile ya existe localmente, usando la versión guardada."
            /\ pc' = "load_roads"
       ELSE /\ pc' = "mkdtemp"
            /\ UNCHANGED printed
  /\ UNCHANGED <<cocutaVars, lizorVars, ended, exception, script, status, run, config, shapefiles, temp_dir, temp_files, leaked,
                 archive, downloads, roads_shp_temp, ext_i, roads, image,
                 requests, fig, connected, xlim, ylim, event, events, handlers, photos>>

\* lines 40-47
MkDTemp ==
  /\ At("pathos", "mkdtemp")
  /\ temp_dir' = "exists"
  /\ printed' = "Descargando shapefile desde Geofabrik..."
  /\ pc' = "download"
  /\ UNCHANGED <<cocutaVars, lizorVars, ended, exception, script, status, run, config, shapefile_dir, shapefiles, temp_files, leaked,
                 archive, downloads, roads_shp_temp, ext_i, roads, image,
                 requests, fig, connected, xlim, ylim, event, events, handlers, photos>>

\* Mutant of TempDirAfterBadStatus: the else branch cleans up before exit().
TempDirRemovedOnBadStatus == "deleted"

\* What lines 53-55 do to the temporary directory when the status is not 200:
\* print and exit(), the directory is not touched.
TempDirAfterBadStatus == temp_dir

\* lines 48-55
Download ==
  /\ At("pathos", "download")
  /\ downloads' = downloads + 1
  /\ \E resp \in Responses, a \in Archives :
       CASE resp = "200" ->
              /\ archive' = a
              /\ temp_files' = temp_files \cup {"mexico_shp.zip"}
              /\ printed' = "Descomprimiendo shapefile..."
              /\ pc' = "extract"
              /\ UNCHANGED <<status, temp_dir, exception>>
         [] resp = "ConnectionError" ->
              /\ status' = "crashed"
              /\ exception' = resp
              /\ UNCHANGED <<pc, printed, archive, temp_files, temp_dir>>
         [] OTHER ->
              /\ printed' = "Error al descargar el shapefile. Código:"
              /\ status' = "exited"
              /\ temp_dir' = TempDirAfterBadStatus
              /\ UNCHANGED <<pc, archive, temp_files, exception>>
  /\ UNCHANGED <<cocutaVars, lizorVars, ended, script, run, config, shapefile_dir, shapefiles, leaked,
                 roads_shp_temp, ext_i, roads, image,
                 requests, fig, connected, xlim, ylim, event, events, handlers, photos>>

\* lines 57-60
Extract ==
  /\ At("pathos", "extract")
  /\ IF archive.valid
       THEN /\ temp_files' = temp_files \cup archive.members
            /\ pc' = "find"
            /\ UNCHANGED <<status, exception>>
       ELSE /\ status' = "crashed"
            /\ exception' = "BadZipFile"
            /\ UNCHANGED <<pc, temp_files>>
  /\ UNCHANGED <<cocutaVars, lizorVars, ended, script, printed, run, config, shapefile_dir, shapefiles, temp_dir, leaked,
                 archive, downloads, roads_shp_temp, ext_i, roads, image,
                 requests, fig, connected, xlim, ylim, event, events, handlers, photos>>

\* Mutant of Rmtree: the directory is left as it is.
RmtreeSkipped == temp_dir

\* shutil.rmtree(temp_dir) of lines 71 and 81: the state of the directory afterwards
Rmtree == "deleted"

\* lines 62-72
FindRoads ==
  /\ At("pathos", "find")
  /\ IF ".shp" \in temp_files
       THEN /\ roads_shp_temp' = "gis_osm_roads_free_1.shp"
            /\ ext_i' = 1
            /\ pc' = "move"
            /\ UNCHANGED <<status, printed, temp_dir, temp_files>>
       ELSE /\ roads_shp_temp' = None
            /\ printed' = "No se encontró gis_osm_roads_free_1.shp."
            /\ temp_dir' = Rmtree
            /\ temp_files' = {}
            /\ status' = "exited"
            /\ UNCHANGED <<pc, ext_i>>
  /\ UNCHANGED <<cocutaVars, lizorVars, ended, exception, script, run, config, shapefile_dir, shapefiles, leaked,
                 archive, downloads, roads, image,
                 requests, fig, connected, xlim, ylim, event, events, handlers, photos>>

\* Mutant of Moved: only the .shp reaches the cache.
MovedShpOnly(cache, ext) == IF ext = ".shp" THEN cache \cup {ext} ELSE cache

\* shutil.move(src, dst): the files of the cache after the move
Moved(cache, ext) == cache \cup {ext}

\* lines 74-78, one iteration
MoveFile ==
  /\ At("pathos", "move")
  /\ LET ext == ExtOrder[ext_i]
     IN IF ext \in temp_files
          THEN /\ temp_files' = temp_files \ {ext}
               /\ shapefiles' = Moved(shapefiles, ext)
               /\ IF ext_i = Len(ExtOrder)
                    THEN pc' = "cleanup" /\ ext_i' = ext_i
                    ELSE pc' = pc /\ ext_i' = ext_i + 1
               /\ UNCHANGED <<status, exception>>
          ELSE /\ status' = "crashed"
               /\ exception' = "FileNotFoundError"
               /\ UNCHANGED <<pc, ext_i, temp_files, shapefiles>>
  /\ UNCHANGED <<cocutaVars, lizorVars, ended, script, printed, run, config, shapefile_dir, temp_dir, leaked,
                 archive, downloads, roads_shp_temp, roads, image,
                 requests, fig, connected, xlim, ylim, event, events, handlers, photos>>

\* lines 80-82
Cleanup ==
  /\ At("pathos", "cleanup")
  /\ temp_dir' = Rmtree
  /\ temp_files' = {}
  /\ printed' = "Shapefile descargado y guardado localmente."
  /\ pc' = "load_roads"
  /\ UNCHANGED <<cocutaVars, lizorVars, ended, exception, script, status, run, config, shapefile_dir, shapefiles, leaked,
                 archive, downloads, roads_shp_temp, ext_i, roads, image,
                 requests, fig, connected, xlim, ylim, event, events, handlers, photos>>

\* Exception classes a library call of the scripts can raise: AttributeError,
\* and ValueError for every other subclass of Exception.
Raisable == {"AttributeError", "ValueError"}

\* isinstance(e, cls) for e of class exc and the class cls an except clause names
IsInstance(exc, cls) == cls = "Exception" \/ exc = cls

\* lines 90-92: except Exception as e: print; exit()
AfterRoadsError(exc) == IF IsInstance(exc, "Exception") THEN "exited" ELSE "crashed"

\* Mutant of AfterInitialFetchError: the handler prints and falls through.
InitialFetchErrorIgnored(exc) == "running"

\* lines 138-141: except Exception as e: print; print; exit()
AfterInitialFetchError(exc) == IF IsInstance(exc, "Exception") THEN "exited" ELSE "crashed"

\* Mutant of AfterClickFetchError: the handler ends with exit(), as the two
\* handlers of the module body do.
ClickFetchErrorExits(exc) == "exited"

\* lines 223-225: except Exception as e: print; return
AfterClickFetchError(exc) == IF IsInstance(exc, "Exception") THEN "running" ELSE "crashed"

\* lines 86-92
LoadRoads ==
  /\ At("pathos", "load_roads")
  /\ \E outcome \in {"ok"} \cup Raisable :
       IF outcome = "ok"
         THEN /\ roads' = <<{r \in ShapefileRoads : r.fclass \in MainClasses}>>
              /\ pc' = "bbox"
              /\ UNCHANGED <<status, printed, exception>>
         ELSE /\ exception' = outcome
              /\ status' = AfterRoadsError(outcome)
              /\ printed' = IF IsInstance(outcome, "Exception")
                               THEN "Error al cargar carreteras" ELSE printed
              /\ pc' = IF AfterRoadsError(outcome) = "running" THEN "bbox" ELSE pc
              /\ UNCHANGED roads
  /\ UNCHANGED <<cocutaVars, lizorVars, ended, script, run, config, shapefile_dir, shapefiles, temp_dir, temp_files, leaked,
                 archive, downloads, roads_shp_temp, ext_i, image,
                 requests, fig, connected, xlim, ylim, event, events, handlers, photos>>

\* lines 94-106; reading a name that was never bound raises NameError
NarrowRoads ==
  /\ At("pathos", "bbox")
  /\ IF roads = Unbound
       THEN /\ status' = "crashed"
            /\ exception' = "NameError"
            /\ UNCHANGED <<roads, pc>>
       ELSE /\ roads' = <<Cx(roads[1], bbox_coords)>>
            /\ pc' = "fetch"
            /\ UNCHANGED <<status, exception>>
  /\ UNCHANGED <<cocutaVars, lizorVars, ended, script, printed, run, config, shapefile_dir, shapefiles, temp_dir,
                 temp_files, leaked, archive, downloads, roads_shp_temp, ext_i, image,
                 requests, fig, connected, xlim, ylim, event, events, handlers, photos>>

\* lines 108-141
FetchInitial ==
  /\ At("pathos", "fetch")
  /\ requests' = requests + 1
  /\ \E outcome \in {"ok"} \cup Raisable :
       IF outcome = "ok"
         THEN /\ image' = "image"
              /\ printed' = "Descargando imagen satelital inicial desde Sentinel Hub..."
              /\ pc' = "render"
              /\ UNCHANGED <<status, exception>>
         ELSE /\ exception' = outcome
              /\ status' = AfterInitialFetchError(outcome)
              /\ printed' = IF IsInstance(outcome, "Exception")
                               THEN "Verifica tu conexión o las credenciales en .env."
                               ELSE "Descargando imagen satelital inicial desde Sentinel Hub..."
              /\ pc' = IF AfterInitialFetchError(outcome) = "running" THEN "render" ELSE pc
              /\ UNCHANGED image
  /\ UNCHANGED <<cocutaVars, lizorVars, ended, script, run, config, shapefile_dir, shapefiles, temp_dir, temp_files, leaked,
                 archive, downloads, roads_shp_temp, ext_i, roads,
                 fig, connected, xlim, ylim, event, events, handlers, photos>>

\* lines 143-166: plt.subplots creates the figure, then imshow reads image
Render ==
  /\ At("pathos", "render")
  /\ fig' = TRUE
  /\ IF image = None
       THEN /\ status' = "crashed"
            /\ exception' = "NameError"
            /\ UNCHANGED <<xlim, ylim, pc>>
       ELSE /\ xlim' = <<bbox_coords[1], bbox_coords[3]>>
            /\ ylim' = <<bbox_coords[2], bbox_coords[4]>>
            /\ pc' = "connect"
            /\ UNCHANGED <<status, exception>>
  /\ UNCHANGED <<cocutaVars, lizorVars, ended, script, printed, run, config, shapefile_dir, shapefiles, temp_dir,
                 temp_files, leaked, archive, downloads, roads_shp_temp, ext_i, roads, image,
                 requests, connected, event, events, handlers, photos>>

\* lines 258-259
Connect ==
  /\ At("pathos", "connect")
  /\ connected' = TRUE
  /\ pc' = "show"
  /\ UNCHANGED <<cocutaVars, lizorVars, ended, exception, script, status, printed, run, config, shapefile_dir, shapefiles, temp_dir,
                 temp_files, leaked, archive, downloads, roads_shp_temp, ext_i, roads, image,
                 requests, fig, xlim, ylim, event, events, handlers, photos>>

\* lines 261-263: plt.show() runs the event loop of the GUI toolkit
Show ==
  /\ At("pathos", "show")
  /\ pc' = "mainloop"
  /\ UNCHANGED <<cocutaVars, lizorVars, exception, script, status, printed, run, pathosVars>>

\* An optional number: <<>> is Python's None, <<v>> the number v.
NoneNum == <<>>

\* Views the user can bring the main axes to with the toolbar (zoom, pan):
\* zoomed in east of the centre, and panned east at the initial size.
ZoomViews ==
  { << <<palacio_lon + 400, palacio_lon + 900>>, <<palacio_lat - 200, palacio_lat + 200>> >>,
    << <<palacio_lon, palacio_lon + 1800>>,     <<palacio_lat - 900, palacio_lat + 900>> >> }

\* The toolbar changes the view limits of the main axes; no code of the script runs.
Zoom ==
  /\ At("pathos", "mainloop")
  /\ \E v \in ZoomViews :
       /\ <<xlim, ylim>> # v
       /\ xlim' = v[1]
       /\ ylim' = v[2]
  /\ UNCHANGED <<cocutaVars, lizorVars, ended, exception, script, pc, status, printed, run, config, shapefile_dir, shapefiles, temp_dir,
                 temp_files, leaked, archive, downloads, roads_shp_temp, ext_i, roads, image,
                 requests, fig, connected, event, events, handlers, photos>>

\* Points of the map a click can land on.
ClickPoints ==
  { <<palacio_lon + 3, palacio_lat + 2>>,
    <<palacio_lon + 803, palacio_lat + 2>> }

\* button_press_event objects: xdata and ydata are None outside the axes and
\* data coordinates inside the current view otherwise.
CanvasEvents ==
  { [button |-> b, key |-> k, xdata |-> NoneNum, ydata |-> NoneNum] :
      b \in {1, 3}, k \in {"control", None} }
  \cup
  { [button |-> b, key |-> k, xdata |-> <<p[1]>>, ydata |-> <<p[2]>>] :
      b \in {1, 3}, k \in {"control", None},
      p \in {q \in ClickPoints : /\ xlim[1] <= q[1] /\ q[1] <= xlim[2]
                                 /\ ylim[1] <= q[2] /\ q[2] <= ylim[2]} }

Max(a, b) == IF a >= b THEN a ELSE b

\* lines 177-190 (the view sizes of ZoomViews are even, so / 2 is exact)
NewBBox(lon, lat) ==
  LET zoom_width  == xlim[2] - xlim[1]
      zoom_height == ylim[2] - ylim[1]
      d == Max(zoom_width, zoom_height) \div 2
  IN <<lon - d, lat - d, lon + d, lat + d>>

\* Mutant of ClickAccepted: a click is ignored while a fetch is in progress.
ClickAcceptedWhenIdle(e) ==
  /\ e.button = 1
  /\ e.key = "control"
  /\ \A n \in 1..Len(handlers) : handlers[n].st # "fetching"

\* line 170
ClickAccepted(e) == e.button = 1 /\ e.key = "control"

\* lines 169-220: on_click up to the blocking get_data call
OnClick ==
  /\ At("pathos", "mainloop")
  /\ connected
  /\ events < MaxEvents
  /\ \E e \in CanvasEvents :
       /\ event' = <<e>>
       /\ events' = events + 1
       /\ IF ClickAccepted(e)
            THEN IF e.xdata = NoneNum \/ e.ydata = NoneNum
                   THEN /\ printed' = "Clic fuera del área del mapa."
                        /\ UNCHANGED <<handlers, requests>>
                   ELSE /\ handlers' = Append(handlers,
                              [lon |-> e.xdata[1], lat |-> e.ydata[1],
                               new_bbox_coords |-> NewBBox(e.xdata[1], e.ydata[1]),
                               st |-> "fetching", fig_new |-> FALSE, new_roads |-> {}])
                        /\ requests' = requests + 1
                        /\ printed' = "Descargando nueva imagen satelital centrada en"
            ELSE UNCHANGED <<handlers, requests, printed>>
  /\ UNCHANGED <<cocutaVars, lizorVars, ended, exception, script, pc, status, run, config, shapefile_dir, shapefiles, temp_dir,
                 temp_files, leaked, archive, downloads, roads_shp_temp, ext_i, roads, image,
                 fig, connected, xlim, ylim, photos>>

\* f"{v:.4f}" of a coordinate: rounded to the nearest 1e-4 degree
\* (ClickPoints holds no tie).
Fmt4(v) ==
  LET m == v % 10
  IN IF m < 5 THEN v - m ELSE v - m + 10

\* line 253
Filename(lat, lon) == <<"foto_satelital_", Fmt4(lat), "_", Fmt4(lon), "_2025.png">>

\* Mutant of ModuleRoads: on_click filters the layer as it was loaded.
ModuleRoadsAsLoaded == {r \in ShapefileRoads : r.fclass \in MainClasses}

\* line 233: the name roads inside on_click is the module-level roads, as
\* line 106 left it
ModuleRoads == roads[1]

\* Mutant of PhotosAfterClickFetchError: the handler goes on to savefig.
PhotosSavedAfterClickFetchError(ph, h) == ph \cup {Filename(h.lat, h.lon)}

\* lines 223-225: the handler returns before lines 227-256; the PNG files are
\* those there were
PhotosAfterClickFetchError(ph, h) == ph

\* lines 221-256: get_data returns or raises in invocation i of on_click
OnClickReturn ==
  /\ At("pathos", "mainloop")
  /\ \E i \in 1..Len(handlers), outcome \in {"ok"} \cup Raisable :
       /\ handlers[i].st = "fetching"
       /\ IF outcome = "ok"
            THEN /\ handlers' = [handlers EXCEPT
                       ![i].st = "saved",
                       ![i].fig_new = TRUE,
                       ![i].new_roads = Cx(ModuleRoads, handlers[i].new_bbox_coords)]
                 /\ photos' = photos \cup {Filename(handlers[i].lat, handlers[i].lon)}
                 /\ printed' = "Foto guardada como"
                 /\ UNCHANGED <<status, exception>>
            ELSE /\ handlers' = [handlers EXCEPT ![i].st = "failed"]
                 /\ exception' = outcome
                 /\ printed' = "Error al descargar la nueva imagen satelital"
                 /\ status' = AfterClickFetchError(outcome)
                 /\ photos' = PhotosAfterClickFetchError(photos, handlers[i])
  /\ UNCHANGED <<cocutaVars, lizorVars, ended, script, pc, run, config, shapefile_dir, shapefiles, temp_dir,
                 temp_files, leaked, archive, downloads, roads_shp_temp, ext_i, roads, image,
                 requests, fig, connected, xlim, ylim, event, events>>

\* line 263: the window is closed, plt.show() returns and the script ends
CloseWindow ==
  /\ At("pathos", "mainloop")
  /\ status' = "finished"
  /\ UNCHANGED <<cocutaVars, lizorVars, exception, script, pc, printed, run, pathosVars>>

\* The script is started again on the file system the last run left.
Restart ==
  /\ script = "pathos"
  /\ status # "running"
  /\ run < MaxRuns
  /\ run' = run + 1
  /\ leaked' = IF temp_dir = "exists" THEN leaked + 1 ELSE leaked
  /\ pc' = "config"
  /\ status' = "running"
  /\ printed' = None
  /\ exception' = None
  /\ config' = NoConfig
  /\ temp_dir' = "none"
  /\ temp_files' = {}
  /\ archive' = NoArchive
  /\ downloads' = 0
  /\ roads_shp_temp' = None
  /\ ext_i' = 0
  /\ roads' = Unbound
  /\ image' = None
  /\ requests' = 0
  /\ fig' = FALSE
  /\ connected' = FALSE
  /\ xlim' = <<0, 0>>
  /\ ylim' = <<0, 0>>
  /\ event' = Unbound
  /\ events' = 0
  /\ handlers' = <<>>
  /\ ended' = <<pc, status>>
  /\ UNCHANGED <<cocutaVars, lizorVars, script, shapefile_dir, shapefiles, photos>>

(***************************************************************************)
(*                             LizorGun.py                                 *)
(***************************************************************************)

\* A decimal literal: <<hi, lo>> is hi * 1e-6 + lo * 1e-14, both of one sign.
Whole(n) == <<n * 1000000, 0>>
LoUnit == 10000 * 10000

\* Mutant of DecAdd: the second operand is dropped.
DecAddLeft(a, b) == a

\* a + b for decimals that are not negative
DecAdd(a, b) ==
  LET lo == a[2] + b[2]
  IN <<a[1] + b[1] + (lo \div LoUnit), lo % LoUnit>>

\* lines 23-36
OBJ_THICKNESS == Whole(10)
YAG_THICKNESS == Whole(5)
YAG_TO_LENS   == Whole(20)
L1A_RADIUS    == <<92847065, 70002484>>
L1A_THICKNESS == Whole(6)
L1B_RADIUS    == <<-30716086, -70000159>>
L1B_THICKNESS == Whole(3)
L1C_RADIUS    == <<-78197307, -26078505>>
L1C_THICKNESS == <<97376047, 42910693>>
DIAMETER_OBJ  == Whole(30)
DIAMETER_YAG  == Whole(10)
DIAMETER_LENS == Whole(30)
DIAMETER_IMA  == Whole(100)
WAVELENGTH    == <<1064000, 0>>

\* lines 38-40
GRID_SIZE == 5
BEAM_RADIUS == 10

\* Mutant of INITIAL_FREQ: another starting frequency.
INITIAL_FREQ_25 == Whole(25)

\* lines 43, 49
INITIAL_FREQ == Whole(250)
TARGET_TEMP == Whole(280)

\* Kos.surf() with the four attributes the script sets; Name and Color are
\* set on some surfaces only and are None on the others.
surf(rc, thickness, glass, diameter) ==
  [Rc |-> rc, Thickness |-> thickness, Glass |-> glass, Diameter |-> diameter,
   Name |-> None, Color |-> <<>>]

\* lines 83-142: the list A
setup_optical_system(include_yag) ==
  LET P_Obj == surf(Whole(0),
                    IF include_yag THEN OBJ_THICKNESS
                    ELSE DecAdd(DecAdd(OBJ_THICKNESS, YAG_THICKNESS), YAG_TO_LENS),
                    "AIR", DIAMETER_OBJ)
      YAG_entrance == IF include_yag
                        THEN surf(Whole(0), YAG_THICKNESS, "AIR", DIAMETER_YAG)
                        ELSE surf(Whole(0), Whole(0), "AIR", DIAMETER_YAG)
      YAG_exit == IF include_yag
                    THEN surf(Whole(0), YAG_TO_LENS, "AIR", DIAMETER_YAG)
                    ELSE surf(Whole(0), Whole(0), "AIR", DIAMETER_YAG)
      L1a == [surf(L1A_RADIUS, L1A_THICKNESS, "BK7", DIAMETER_LENS)
                EXCEPT !.Color = <<8, 7, 4>>]
      L1b == [surf(L1B_RADIUS, L1B_THICKNESS, "F2", DIAMETER_LENS)
                EXCEPT !.Color = <<7, 4, 4>>]
      L1c == surf(L1C_RADIUS, L1C_THICKNESS, "AIR", DIAMETER_LENS)
      P_Ima == [surf(Whole(0), Whole(0), "AIR", DIAMETER_IMA)
                EXCEPT !.Name = "Image Plane"]
  IN <<P_Obj, YAG_entrance, YAG_exit, L1a, L1b, L1c, P_Ima>>

\* Mutant of BuildSystem: one surface list is kept and its surfaces are
\* reassigned in place by every later call.
BuildSystemInPlace(h, include_yag) ==
  IF h = <<>> THEN <<setup_optical_system(include_yag)>>
  ELSE Append([n \in 1..Len(h) |-> setup_optical_system(include_yag)],
              setup_optical_system(include_yag))

\* lines 84-146: every call makes new surfaces, a new list A and a new system
BuildSystem(h, include_yag) == Append(h, setup_optical_system(include_yag))

\* for i in range(-GRID_SIZE, GRID_SIZE + 1): for j in range(...): in loop order
GridSide == 2 * GRID_SIZE + 1
GridOrder ==
  [n \in 1..(GridSide * GridSide) |->
     <<((n - 1) \div GridSide) - GRID_SIZE, ((n - 1) % GridSide) - GRID_SIZE>>]

\* lines 153-156: x_0 = (i / GRID_SIZE) * BEAM_RADIUS is the integer 2 * i for
\* every i of the grid, and r < BEAM_RADIUS compares the root of an integer
\* square sum, so that r < 10 exactly when x_0^2 + y_0^2 < 100.
X0(i) == (i * BEAM_RADIUS) \div GRID_SIZE
\* Mutant of InBeam: r <= BEAM_RADIUS.
InBeamInclusive(p) == X0(p[1]) * X0(p[1]) + X0(p[2]) * X0(p[2]) <= BEAM_RADIUS * BEAM_RADIUS

InBeam(p) == X0(p[1]) * X0(p[1]) + X0(p[2]) * X0(p[2]) < BEAM_RADIUS * BEAM_RADIUS

\* lines 157-161: the ray pushed for grid point p
Ray(p) == [pSource_0 |-> <<X0(p[1]), X0(p[2]), 0>>, dCos |-> <<0, 0, 1>>, wave |-> WAVELENGTH]

\* lines 149-161: the raylist after trace_rays, whatever it held before
trace_rays(raylist) ==
  LET kept == SelectSeq(GridOrder, InBeam)
  IN [n \in 1..Len(kept) |-> Ray(kept[n])]

\* str.lower() on the letters of the alphabet; every other character is kept
UpperCase == <<"A","B","C","D","E","F","G","H","I","J","K","L","M",
               "N","O","P","Q","R","S","T","U","V","W","X","Y","Z">>
LowerCase == <<"a","b","c","d","e","f","g","h","i","j","k","l","m",
               "n","o","p","q","r","s","t","u","v","w","x","y","z">>
LowerChar(ch) ==
  IF \E n \in 1..Len(UpperCase) : UpperCase[n] = ch
    THEN LowerCase[CHOOSE n \in 1..Len(UpperCase) : UpperCase[n] = ch]
    ELSE ch
\* Mutant of lower: the line is compared as typed.
NotLowered(str) == str

\* line 220: .lower()
lower(str) == [n \in 1..Len(str) |-> LowerChar(str[n])]

\* Lines the user can type, character by character.
InputLines ==
  { <<"b">>, <<"B">>, <<"e","x","i","t">>, <<"E","x","i","T">>,
    <<>>, <<"b"," ">>, <<"q">> }

NoNames == [optical_system_with_yag |-> 0, rays_with_yag |-> 0,
            optical_system_no_yag |-> 0, rays_no_yag |-> 0]

LizorInit ==
  /\ pc = "prompt"
  /\ status = "running"
  /\ printed = "Laser Simulation: Frequency set to 250 Hz. Press 'b' to run simulation."
  /\ exception = None
  /\ run = 1
  /\ frequency = INITIAL_FREQ
  /\ user_input = <<>>
  /\ lines = <<>>
  /\ sims = 0
  /\ heap = <<>>
  /\ keepers = <<>>
  /\ bound = NoNames
  /\ calcs = <<>>

\* line 222
IsExit(str) == str = <<"e","x","i","t">>
\* line 224
IsRun(str) == str = <<"b">>

\* lines 217-225, 292: one pass of the loop up to the dispatch on the command
ReadLine ==
  /\ At("LizorGun", "prompt")
  /\ Len(lines) < MaxLines
  /\ \E raw \in InputLines :
       /\ lines' = Append(lines, raw)
       /\ user_input' = lower(raw)
       /\ IF IsExit(lower(raw))
            THEN /\ printed' = "Simulation ended."
                 /\ status' = "finished"
                 /\ UNCHANGED <<pc, sims>>
            ELSE IF IsRun(lower(raw))
                   THEN /\ printed' = "=== Simulation WITH YAG Crystal ==="
                        /\ pc' = "setup_with_yag"
                        /\ sims' = sims + 1
                        /\ UNCHANGED status
                   ELSE /\ printed' = "Options: 'b' to run simulation, 'exit' to quit"
                        /\ UNCHANGED <<pc, status, sims>>
  /\ UNCHANGED <<cocutaVars, pathosVars, script, run, exception, frequency, heap, keepers, bound, calcs>>

\* line 220: stdin is at its end and input() raises EOFError, which nothing catches
EndOfInput ==
  /\ At("LizorGun", "prompt")
  /\ status' = "crashed"
  /\ exception' = "EOFError"
  /\ UNCHANGED <<cocutaVars, pathosVars, script, pc, printed, run, frequency, user_input, lines, sims,
                 heap, keepers, bound, calcs>>

\* lines 229 and 257
SetupOpticalSystem ==
  /\ \/ At("LizorGun", "setup_with_yag")
     \/ At("LizorGun", "setup_no_yag")
  /\ LET include_yag == pc = "setup_with_yag"
     IN /\ heap' = BuildSystem(heap, include_yag)
        /\ keepers' = Append(keepers, <<>>)
        /\ bound' = IF include_yag
                      THEN [bound EXCEPT !.optical_system_with_yag = Len(heap) + 1,
                                         !.rays_with_yag = Len(heap) + 1]
                      ELSE [bound EXCEPT !.optical_system_no_yag = Len(heap) + 1,
                                         !.rays_no_yag = Len(heap) + 1]
        /\ pc' = IF include_yag THEN "trace_with_yag" ELSE "trace_no_yag"
  /\ UNCHANGED <<cocutaVars, pathosVars, script, status, printed, run, exception, frequency, user_input,
                 lines, sims, calcs>>

\* lines 230 and 258
TraceRays ==
  /\ \/ At("LizorGun", "trace_with_yag")
     \/ At("LizorGun", "trace_no_yag")
  /\ LET with_yag == pc = "trace_with_yag"
         k == IF with_yag THEN bound.rays_with_yag ELSE bound.rays_no_yag
     IN /\ keepers' = [keepers EXCEPT ![k] = trace_rays(keepers[k])]
        /\ pc' = IF with_yag THEN "calc_with_yag" ELSE "calc_no_yag"
  /\ UNCHANGED <<cocutaVars, pathosVars, script, status, printed, run, exception, frequency, user_input,
                 lines, sims, heap, bound, calcs>>

\* line 171: except AttributeError
SpotSizeCatches == "AttributeError"

\* lines 165-177: what reading rays.raylist and the ray ends can do: succeed,
\* or raise.  A caught exception leaves the function running (the analytic
\* estimate of lines 172-177); any other ends the process with a traceback.
AfterSpotSizeError(exc) == IF IsInstance(exc, SpotSizeCatches) THEN "running" ELSE "crashed"

\* lines 231-251 and 259-279: calculate_peak_power_for_temp and the figures derived from it
Calculate ==
  /\ \/ At("LizorGun", "calc_with_yag")
     \/ At("LizorGun", "calc_no_yag")
  /\ LET with_yag == pc = "calc_with_yag"
     IN \E outcome \in {"ok"} \cup Raisable :
          /\ exception' = IF outcome = "ok" THEN exception ELSE outcome
          /\ status' = IF outcome = "ok" THEN status ELSE AfterSpotSizeError(outcome)
          /\ IF outcome = "ok" \/ AfterSpotSizeError(outcome) = "running"
               THEN /\ calcs' = Append(calcs, [with_yag |-> with_yag, freq |-> frequency,
                                               target_temp |-> TARGET_TEMP,
                                               analytic |-> outcome # "ok"])
                    /\ printed' = "Current from heat at different voltages:"
                    /\ pc' = IF with_yag THEN "display_with_yag" ELSE "display_no_yag"
               ELSE UNCHANGED <<printed, calcs, pc>>
  /\ UNCHANGED <<cocutaVars, pathosVars, script, run, frequency, user_input, lines, sims, heap, keepers,
                 bound>>

\* lines 253-256 and 281-290
Display ==
  /\ \/ At("LizorGun", "display_with_yag")
     \/ At("LizorGun", "display_no_yag")
  /\ IF pc = "display_with_yag"
       THEN /\ printed' = "=== Simulation WITHOUT YAG Crystal ==="
            /\ pc' = "setup_no_yag"
       ELSE /\ printed' = "- Material: Steel (thermal conductivity 50.0 W/m·K)"
            /\ pc' = "prompt"
  /\ UNCHANGED <<cocutaVars, pathosVars, script, status, run, exception, lizorVars>>

(***************************************************************************)
(*                              cocuta.py                                  *)
(***************************************************************************)

\* lines 59-70
route_data ==
  << <<"1", "Bogotá → Cúcuta, Colombia", "560 km", "Troncal 55, Troncal 66", "10-12 hours", "Border area with Venezuela, potential instability. Military escort recommended.">>,
     <<"2", "Cúcuta → Cartagena, Colombia", "430 km", "Troncal 45, Route 90", "8 hours", "Preparation for maritime/air transport to Panama.">>,
     <<"3", "Cartagena → Panama City", "600 km (gap)", "Maritime/Air", "12-24 hours", "Coordinate with military ports or airports.">>,
     <<"4", "Panama City → San José, Costa Rica", "530 km", "Pan-American Highway (CA-1)", "8-10 hours", "Border crossing at Paso Canoas, strict documentation.">>,
     <<"5", "San José → Managua, Nicaragua", "430 km", "Pan-American Highway (CA-1)", "7-8 hours", "Political risks in Nicaragua, maintain low profile.">>,
     <<"6", "Managua → Tegucigalpa, Honduras", "400 km", "CA-1, CA-3", "7-8 hours", "Areas with criminal activity, use armed escorts.">>,
     <<"7", "Tegucigalpa → Guatemala City", "360 km", "CA-5, CA-13, CA-9", "6-7 hours", "Avoid gang areas, coordinate with Guatemalan army.">>,
     <<"8", "Guatemala City → Tapachula, Mexico", "250 km", "CA-1, Mexico 200", "5-6 hours", "Border with high migratory activity, reinforce security.">>,
     <<"9", "Tapachula → Mexico City", "1,100 km", "Mexico 200, Mexico 150D", "14-16 hours", "Use toll highways, avoid cartel zones.">>,
     <<"10", "Mexico City → Ciudad Juárez", "1,800 km", "Mexico 57D, Mexico 45D", "20-22 hours", "Escorted convoys in Chihuahua, military presence in Juárez.">> >>

\* lines 72-72
route_headers ==
  <<"No.", "Segment", "Distance", "Highway", "Estimated Time", "Notes">>

\* lines 99-110
timeline_data ==
  << <<"Day 1", "Bogotá → Cúcuta", "560 km", "10-12 hours", "Overnight in Cúcuta, security review.">>,
     <<"Day 2", "Cúcuta → Cartagena", "430 km", "8 hours", "Preparation for Panama transfer.">>,
     <<"Day 3", "Cartagena → Panama City", "600 km (gap)", "12-24 hours", "Maritime/air logistics.">>,
     <<"Day 4", "Panama City → San José", "530 km", "8-10 hours", "Rest in San José.">>,
     <<"Day 5", "San José → Managua", "430 km", "7-8 hours", "Border review in Nicaragua.">>,
     <<"Day 6", "Managua → Tegucigalpa", "400 km", "7-8 hours", "Overnight in Tegucigalpa, enhanced security.">>,
     <<"Day 7", "Tegucigalpa → Guatemala City", "360 km", "6-7 hours", "Coordination with Guatemala.">>,
     <<"Day 8", "Guatemala City → Tapachula", "250 km", "5-6 hours", "Entry to Mexico, customs inspection.">>,
     <<"Day 9", "Tapachula → Mexico City", "1,100 km", "14-16 hours", "Rest in Mexico City.">>,
     <<"Day 10", "Mexico City → Ciudad Juárez", "1,800 km", "20-22 hours", "Arrival at destination.">> >>

\* lines 112-112
timeline_headers ==
  <<"Day", "Segment", "Distance", "Time", "Notes">>

\* The statements of the script body, lines 39-136, in order.
Statements ==
  << [op |-> "add_heading", text |-> "Planning Report: Military Route Bogotá - Ciudad Juárez", level |-> 0],
     [op |-> "add_paragraph", text |-> "\n", bold |-> FALSE, size |-> 12],
     [op |-> "add_paragraph", text |-> "Date: {now}", bold |-> TRUE, size |-> 12],
     [op |-> "add_paragraph", text |-> "Purpose: Planning and execution of a military land route from Bogotá, Colombia, to Ciudad Juárez, Mexico, prioritizing speed, safety, and logistics.", bold |-> FALSE, size |-> 12],
     [op |-> "add_page_break"],
     [op |-> "add_heading", text |-> "Introduction", level |-> 1],
     [op |-> "add_paragraph", text |-> "This report outlines the planning of a military land route from Bogotá, Colombia, to Ciudad Juárez, Mexico, covering approximately 4,800 km across multiple countries (Colombia, Panama, Costa Rica, Nicaragua, Honduras, Guatemala, and Mexico). The route is designed for a military convoy, prioritizing main highways, safety against conflict zones, and efficient logistics. Due to the Darién Gap, a maritime or air segment is included between Colombia and Panama. The objective is to ensure a swift and secure execution, with an estimated duration of 7 to 10 days, accounting for stops, border crossings, and resupply.", bold |-> FALSE, size |-> 11],
     [op |-> "add_heading", text |-> "Route Description", level |-> 1],
     [op |-> "add_paragraph", text |-> "The route is divided into key segments, utilizing major highways such as the Pan-American Highway and toll roads in Mexico. Below is a detailed breakdown of each segment:", bold |-> FALSE, size |-> 11],
     [op |-> "add_table", data |-> route_data, headers |-> route_headers],
     [op |-> "add_heading", text |-> "Military Considerations", level |-> 1],
     [op |-> "add_heading", text |-> "Security", level |-> 2],
     [op |-> "add_paragraph", text |-> "- Avoid high-risk areas: Darién Gap (impassable by land), urban areas in Honduras (San Pedro Sula), and Mexican regions with cartel presence (Guerrero, Chihuahua outside highways).\n- Deploy armed convoys with armored vehicles and escorts in vulnerable segments.\n- Use surveillance drones and satellite communication for real-time monitoring.\n- Establish protocols for border crossings, with personnel trained in negotiation and crowd control.", bold |-> FALSE, size |-> 11],
     [op |-> "add_heading", text |-> "Logistics", level |-> 2],
     [op |-> "add_paragraph", text |-> "- Plan resupply stations every 300-400 km, especially on main highways.\n- Coordinate with local armies for expedited border permits (Paso Canoas, Peñas Blancas, Ciudad Hidalgo).\n- Secure maritime or air transport from Cartagena to Panama, with capacity for vehicles and personnel.\n- Maintain reserves of fuel, food, and spare parts in each convoy.", bold |-> FALSE, size |-> 11],
     [op |-> "add_heading", text |-> "Timeline", level |-> 1],
     [op |-> "add_paragraph", text |-> "The total estimated time for the route is 7 to 10 days, considering driving, rest, border crossings, and logistics. Below is the approximate timeline:", bold |-> FALSE, size |-> 11],
     [op |-> "add_table", data |-> timeline_data, headers |-> timeline_headers],
     [op |-> "add_paragraph", text |-> "Total driving time: ~95-110 hours (~4-5 days without stops). With rest and logistics, estimated at 7-10 days.", bold |-> FALSE, size |-> 11],
     [op |-> "add_heading", text |-> "Recommendations", level |-> 1],
     [op |-> "add_paragraph", text |-> "- Conduct prior route reconnaissance using satellite intelligence and drones to identify threats.\n- Establish mobile checkpoints in each country, with constant communication between convoys.\n- Train personnel in border procedures and ambush response.\n- Prioritize toll highways in Mexico (150D, 57D, 45D) to minimize risks.\n- Maintain flexibility to adjust the route in case of road closures or unexpected conflicts.", bold |-> FALSE, size |-> 11],
     [op |-> "add_heading", text |-> "Conclusion", level |-> 1],
     [op |-> "add_paragraph", text |-> "The military route from Bogotá to Ciudad Juárez is feasible in 7 to 10 days, using main highways and a logistical gap in the Darién. Detailed planning, with emphasis on security and logistics, ensures efficient execution. International coordination and the use of surveillance technology will be critical to the operation's success.", bold |-> FALSE, size |-> 11],
     [op |-> "save", output_path |-> "Military_Route_Report_Bogota_Juarez.docx"] >>

\* line 42: datetime.now().strftime('%B %d, 2025') on the day the script runs
DateLines == {"Date: November 01, 2025", "Date: February 29, 2025"}

\* line 37: str(cell_data); every entry of both tables is a str, and str()
\* of a str is that str
str(cell_data) == cell_data

\* Mutant of TableRows: no row for the headers.
TableRowsNoHeader(data) == Len(data)

\* line 28: rows=len(data) + 1
TableRows(data) == Len(data) + 1
\* line 28: cols=len(headers)
TableCols(headers) == Len(headers)

\* lines 35-36: the pairs (row_idx, col_idx) the nested loops visit, in order
RECURSIVE CellOrder(_, _)
CellOrder(data, row_idx) ==
  IF row_idx > Len(data) THEN <<>>
  ELSE [c \in 1..Len(data[row_idx]) |-> <<row_idx, c - 1>>] \o CellOrder(data, row_idx + 1)

\* table.cell(r, c) exists
InTable(t, r, c) == 0 <= r /\ r < t.rows /\ 0 <= c /\ c < t.cols

NoLoop == [i |-> 0, k |-> 0]

CocutaInit ==
  /\ pc = "body"
  /\ status = "running"
  /\ printed = None
  /\ exception = None
  /\ run = 1
  /\ doc = <<>>
  /\ stmt = 1
  /\ loop = NoLoop
  /\ saved = FALSE

CocutaIdle == doc = <<>> /\ stmt = 1 /\ loop = NoLoop /\ saved = FALSE

AtStatement(op) ==
  /\ At("cocuta", "body")
  /\ stmt <= Len(Statements)
  /\ Statements[stmt].op = op

\* lines 10-15
AddHeading ==
  /\ AtStatement("add_heading")
  /\ LET s == Statements[stmt]
     IN doc' = Append(doc, [kind |-> "heading", text |-> s.text, level |-> s.level,
                            alignment |-> "CENTER",
                            size |-> IF s.level = 0 THEN 14 ELSE 12, bold |-> TRUE])
  /\ stmt' = stmt + 1
  /\ UNCHANGED <<pathosVars, lizorVars, script, pc, status, printed, run, exception, loop, saved>>

\* lines 18-24
AddParagraph ==
  /\ AtStatement("add_paragraph")
  /\ LET s == Statements[stmt]
     IN \E text \in (IF s.text = "Date: {now}" THEN DateLines ELSE {s.text}) :
          doc' = Append(doc, [kind |-> "paragraph", text |-> text, size |-> s.size,
                              bold |-> s.bold, alignment |-> "JUSTIFY"])
  /\ stmt' = stmt + 1
  /\ UNCHANGED <<pathosVars, lizorVars, script, pc, status, printed, run, exception, loop, saved>>

\* line 44
AddPageBreak ==
  /\ AtStatement("add_page_break")
  /\ doc' = Append(doc, [kind |-> "page_break"])
  /\ stmt' = stmt + 1
  /\ UNCHANGED <<pathosVars, lizorVars, script, pc, status, printed, run, exception, loop, saved>>

\* Where add_table goes on once header i and data cell k are the next to write.
AfterTableStep(s, i, k) ==
  IF i < Len(s.headers) THEN "headers"
  ELSE IF k <= Len(CellOrder(s.data, 1)) THEN "data"
  ELSE "body"

\* lines 27-29
AddTable ==
  /\ AtStatement("add_table")
  /\ LET s == Statements[stmt]
         rows == TableRows(s.data)
         cols == TableCols(s.headers)
     IN /\ doc' = Append(doc, [kind |-> "table", rows |-> rows, cols |-> cols,
                               style |-> "Table Grid",
                               cells |-> [rc \in (0..(rows - 1)) \X (0..(cols - 1)) |-> ""],
                               bold |-> {}])
        /\ loop' = [i |-> 0, k |-> 1]
        /\ pc' = AfterTableStep(s, 0, 1)
        /\ stmt' = IF AfterTableStep(s, 0, 1) = "body" THEN stmt + 1 ELSE stmt
  /\ UNCHANGED <<pathosVars, lizorVars, script, status, printed, run, exception, saved>>

\* lines 31-33, one iteration
AddTableHeader ==
  /\ At("cocuta", "headers")
  /\ LET s == Statements[stmt]
         t == doc[Len(doc)]
         i == loop.i
     IN IF InTable(t, 0, i)
          THEN /\ doc' = [doc EXCEPT ![Len(doc)].cells[<<0, i>>] = s.headers[i + 1],
                                     ![Len(doc)].bold = @ \cup {<<0, i>>}]
               /\ loop' = [loop EXCEPT !.i = i + 1]
               /\ pc' = AfterTableStep(s, i + 1, loop.k)
               /\ stmt' = IF AfterTableStep(s, i + 1, loop.k) = "body" THEN stmt + 1 ELSE stmt
               /\ UNCHANGED <<status, exception>>
          ELSE /\ status' = "crashed"
               /\ exception' = "IndexError"
               /\ UNCHANGED <<doc, loop, pc, stmt>>
  /\ UNCHANGED <<pathosVars, lizorVars, script, printed, run, saved>>

\* lines 35-37, one iteration of the inner loop
AddTableCell ==
  /\ At("cocuta", "data")
  /\ LET s == Statements[stmt]
         t == doc[Len(doc)]
         at == CellOrder(s.data, 1)[loop.k]
         row_idx == at[1]
         col_idx == at[2]
     IN IF InTable(t, row_idx, col_idx)
          THEN /\ doc' = [doc EXCEPT ![Len(doc)].cells[<<row_idx, col_idx>>] =
                                        str(s.data[row_idx][col_idx + 1])]
               /\ loop' = [loop EXCEPT !.k = loop.k + 1]
               /\ pc' = AfterTableStep(s, loop.i, loop.k + 1)
               /\ stmt' = IF AfterTableStep(s, loop.i, loop.k + 1) = "body"
                            THEN stmt + 1 ELSE stmt
               /\ UNCHANGED <<status, exception>>
          ELSE /\ status' = "crashed"
               /\ exception' = "IndexError"
               /\ UNCHANGED <<doc, loop, pc, stmt>>
  /\ UNCHANGED <<pathosVars, lizorVars, script, printed, run, saved>>

\* lines 134-137
Save ==
  /\ AtStatement("save")
  /\ saved' = TRUE
  /\ printed' = "Report saved as 'Military_Route_Report_Bogota_Juarez.docx'"
  /\ status' = "finished"
  /\ stmt' = stmt + 1
  /\ UNCHANGED <<pathosVars, lizorVars, script, pc, run, exception, doc, loop>>

PathosIdle ==
  /\ config = NoConfig /\ shapefile_dir = FALSE /\ shapefiles = {} /\ temp_dir = "none"
  /\ temp_files = {} /\ leaked = 0 /\ archive = NoArchive /\ downloads = 0
  /\ roads_shp_temp = None /\ ext_i = 0 /\ roads = Unbound /\ image = None
  /\ requests = 0 /\ fig = FALSE /\ connected = FALSE /\ xlim = <<0, 0>>
  /\ ylim = <<0, 0>> /\ event = Unbound /\ events = 0 /\ handlers = <<>> /\ photos = {}
  /\ ended = <<>>

LizorIdle ==
  /\ frequency = INITIAL_FREQ /\ user_input = <<>> /\ lines = <<>> /\ sims = 0
  /\ heap = <<>> /\ keepers = <<>> /\ bound = NoNames /\ calcs = <<>>

Init ==
  \/ script = "pathos" /\ PathosInit /\ LizorIdle /\ CocutaIdle
  \/ script = "LizorGun" /\ LizorInit /\ PathosIdle /\ CocutaIdle
  \/ script = "cocuta" /\ CocutaInit /\ PathosIdle /\ LizorIdle

Next ==
  \/ CheckCredentials
  \/ MakeDirs
  \/ MkDTemp
  \/ Download
  \/ Extract
  \/ FindRoads
  \/ MoveFile
  \/ Cleanup
  \/ LoadRoads
  \/ NarrowRoads
  \/ FetchInitial
  \/ Render
  \/ Connect
  \/ Show
  \/ Zoom
  \/ OnClick
  \/ OnClickReturn
  \/ CloseWindow
  \/ Restart
  \/ ReadLine
  \/ EndOfInput
  \/ SetupOpticalSystem
  \/ TraceRays
  \/ Calculate
  \/ Display
  \/ AddHeading
  \/ AddParagraph
  \/ AddPageBreak
  \/ AddTable
  \/ AddTableHeader
  \/ AddTableCell
  \/ Save

Spec == Init /\ [][Next]_vars

(***************************************************************************)
(*                         Properties of pathos.py                         *)
(***************************************************************************)

\* A credential is absent (unset) or empty.
MissingCredential(c) ==
  \E v \in {c.instance_id, c.sh_client_id, c.sh_client_secret} : v = None \/ v = ""

\* The positions of pathos.py, by the step of the script they belong to.
ObtainPositions == {"makedirs", "mkdtemp", "download", "extract", "find", "move", "cleanup"}
LoadPositions   == {"load_roads", "bbox"}
RenderPositions == {"render", "connect", "show", "mainloop"}
AfterObtain     == LoadPositions \cup {"fetch"} \cup RenderPositions

\* C1: when a credential is missing the run ends in exit() at the credentials
\* check with the message printed, and it has created no temporary directory,
\* downloaded nothing and requested no imagery; no step of such a run creates
\* data/shapefiles.
C1_MissingCredentialsExit ==
  /\ [](script = "pathos" /\ ~(status = "running" /\ pc = "config")
          /\ MissingCredential(config)
        => /\ status = "exited"
           /\ pc = "config"
           /\ printed = "Asegúrate de tener SENTINEL_INSTANCE_ID, SENTINEL_CLIENT_ID y SENTINEL_CLIENT_SECRET."
           /\ temp_dir = "none"
           /\ temp_files = {}
           /\ downloads = 0
           /\ requests = 0)
  /\ [][script = "pathos" /\ run' = run /\ MissingCredential(config')
        => /\ shapefile_dir' = shapefile_dir
           /\ shapefiles' = shapefiles
           /\ leaked' = leaked]_vars

C1_Witness ==
  /\ script = "pathos"
  /\ status = "exited"
  /\ config = [instance_id |-> "cred", sh_client_id |-> "cred", sh_client_secret |-> ""]
  /\ ~shapefile_dir

\* C3: a run that finds gis_osm_roads_free_1.shp in data/shapefiles goes from
\* the cache test straight to loading the roads, with no temporary directory,
\* no download and nothing extracted; and from the loading step on no run
\* creates a directory, downloads or extracts.
C3_CacheHitSkipsDownload ==
  /\ [][script = "pathos" /\ run' = run /\ pc \in {"config", "makedirs"}
          /\ ".shp" \in shapefiles
        => /\ pc' \in {"config", "makedirs", "load_roads"}
           /\ temp_dir' = "none"
           /\ temp_files' = {}
           /\ downloads' = 0
           /\ archive' = NoArchive
           /\ shapefiles' = shapefiles]_vars
  /\ [][script = "pathos" /\ run' = run /\ pc \in AfterObtain
        => /\ pc' \in AfterObtain
           /\ temp_dir' = temp_dir
           /\ temp_files' = temp_files
           /\ downloads' = downloads
           /\ archive' = archive
           /\ shapefiles' = shapefiles]_vars

C3_Witness ==
  /\ script = "pathos"
  /\ status = "running"
  /\ pc = "load_roads"
  /\ run = 1
  /\ temp_dir = "none"
  /\ downloads = 0
  /\ printed = "Shapefile ya existe localmente, usando la versión guardada."

\* C4: a run that went through the download branch and is at or past the
\* roads-loading step has the four files in data/shapefiles and its temporary
\* directory deleted; the files outlive the run, and a run that finds them
\* takes the cache-hit branch.
C4_DownloadFillsCache ==
  /\ [](script = "pathos" /\ temp_dir # "none" /\ pc \in AfterObtain
        => /\ Exts \subseteq shapefiles
           /\ temp_dir = "deleted"
           /\ temp_files = {}
           /\ downloads = 1)
  /\ [][script = "pathos" /\ run' # run => shapefiles' = shapefiles]_vars
  /\ [][script = "pathos" /\ status = "running" /\ pc = "makedirs"
          /\ Exts \subseteq shapefiles
        => pc' = "load_roads" /\ temp_dir' = "none"]_vars

C4_Witness ==
  /\ script = "pathos"
  /\ status = "running"
  /\ pc = "load_roads"
  /\ temp_dir = "deleted"
  /\ downloads = 1
  /\ shapefiles = Exts

\* C6: a download answered with a status other than 200 ends the run in exit()
\* with the temporary directory of the run still in place.
C6_TempDirLeftOnBadStatus ==
  script = "pathos" /\ status = "exited" /\ pc = "download"
  => /\ temp_dir = "exists"
     /\ printed = "Error al descargar el shapefile. Código:"
     /\ downloads = 1

C6_Witness ==
  /\ script = "pathos"
  /\ status = "exited"
  /\ pc = "download"
  /\ temp_dir = "exists"

\* A click the callback acts on: left button, control held, inside the axes.
QualifyingClick(e) ==
  e.button = 1 /\ e.key = "control" /\ e.xdata # NoneNum /\ e.ydata # NoneNum

StageNo(p) ==
  CASE p = "config" -> 1
    [] p \in ObtainPositions -> 2
    [] p \in LoadPositions -> 3
    [] p = "fetch" -> 4
    [] p \in RenderPositions -> 5

\* C10: a run of pathos.py goes through its steps in order, one after the
\* other: credentials, roads shapefile, roads loading, initial image, render.
\* An imagery request has been issued only with the roads loaded, and the
\* figure exists and on_click is registered only with the initial image fetched.
C10_StepsInOrder ==
  /\ [](script = "pathos"
        => /\ (StageNo(pc) >= 2 => ~MissingCredential(config))
           /\ (StageNo(pc) >= 3 => ".shp" \in shapefiles)
           /\ (StageNo(pc) >= 4 => roads # Unbound)
           /\ (requests > 0 => roads # Unbound /\ StageNo(pc) >= 4)
           /\ (StageNo(pc) >= 5 => image # None)
           /\ (fig \/ connected => image # None /\ requests >= 1 /\ StageNo(pc) = 5)
           /\ (connected => fig))
  /\ [][script = "pathos" /\ run' = run
        => StageNo(pc') \in {StageNo(pc), StageNo(pc) + 1}]_vars

C10_Witness ==
  /\ script = "pathos"
  /\ status = "running"
  /\ pc = "mainloop"
  /\ connected
  /\ requests = 1
  /\ temp_dir = "deleted"

\* C5 as claimed: an exception raised inside any try block of the repository
\* has ended the process through exit().
C5_EveryHandlerExits == exception \in Raisable => status = "exited"

\* C5 amended: the two handlers of the body of pathos.py print and exit; the
\* handler of on_click prints and returns, and the process goes on with the
\* map; the handler of calculate_peak_power_for_temp catches AttributeError
\* alone and goes on with the analytic estimate, and any other exception
\* raised there is not caught.
C5_HandlersPerSite ==
  /\ [](script = "pathos" /\ exception \in Raisable /\ pc \in {"load_roads", "fetch"}
        => /\ status = "exited"
           /\ printed \in {"Error al cargar carreteras",
                           "Verifica tu conexión o las credenciales en .env."})
  /\ [][script = "pathos" /\ run' = run
          /\ (\E n \in 1..Len(handlers) :
                 handlers[n].st = "fetching" /\ handlers'[n].st = "failed")
        => /\ status' = "running"
           /\ pc' = "mainloop"
           /\ exception' \in Raisable
           /\ printed' = "Error al descargar la nueva imagen satelital"
           /\ photos' = photos]_vars
  /\ [](script = "pathos" /\ pc = "mainloop" => status \in {"running", "finished"})
  /\ [][script = "LizorGun" /\ Len(calcs') = Len(calcs) + 1 /\ calcs'[Len(calcs')].analytic
        => status' = "running" /\ exception' = "AttributeError"]_vars
  /\ [](script = "LizorGun" /\ pc \in {"calc_with_yag", "calc_no_yag"} /\ status # "running"
        => status = "crashed" /\ exception \in Raisable \ {"AttributeError"})

C5_Witness ==
  /\ script = "pathos"
  /\ status = "running"
  /\ pc = "mainloop"
  /\ exception \in Raisable
  /\ \E n \in 1..Len(handlers) : handlers[n].st = "failed"

(***************************************************************************)
(*                        Properties of LizorGun.py                        *)
(***************************************************************************)

\* The lines of InputLines whose lower-cased text is 'exit', and 'b'.
ExitTyped == { <<"e","x","i","t">>, <<"E","x","i","T">> }
RunTyped  == { <<"b">>, <<"B">> }

\* C2: the loop ends, with 'Simulation ended.' printed, at the first line whose
\* lower-cased text is 'exit' and at no other line; a run starts for each
\* earlier line whose lower-cased text is 'b' and only then; any other line
\* leads back to the prompt and leaves the state of the simulation as it was.
C2_CommandLoop ==
  /\ [](script = "LizorGun"
        => /\ sims = Cardinality({n \in 1..Len(lines) : lines[n] \in RunTyped})
           /\ \A n \in 1..(Len(lines) - 1) : lines[n] \notin ExitTyped
           /\ (status = "finished" <=> Len(lines) > 0 /\ lines[Len(lines)] \in ExitTyped)
           /\ (status = "finished" => printed = "Simulation ended."))
  /\ [][script = "LizorGun" /\ Len(lines') = Len(lines) + 1
        => LET raw == lines'[Len(lines')]
           IN /\ pc = "prompt"
              /\ raw \in RunTyped => pc' = "setup_with_yag" /\ status' = "running"
              /\ raw \in ExitTyped => pc' = pc /\ status' = "finished"
              /\ raw \notin RunTyped \cup ExitTyped
                 => /\ pc' = "prompt"
                    /\ status' = "running"
                    /\ <<frequency, sims, heap, keepers, bound, calcs, exception>>'
                         = <<frequency, sims, heap, keepers, bound, calcs, exception>>]_vars
  /\ [][script = "LizorGun" /\ pc' = "setup_with_yag" /\ pc # "setup_with_yag"
        => Len(lines') = Len(lines) + 1 /\ lines'[Len(lines')] \in RunTyped]_vars

C2_Witness ==
  /\ script = "LizorGun"
  /\ status = "finished"
  /\ printed = "Simulation ended."
  /\ lines = << <<"B">>, <<"q">>, <<"E","x","i","T">> >>
  /\ sims = 1
  /\ Len(heap) = 2

\* C9 as claimed: once a surface sequence is built, none is built again and
\* none changes.
C9_BuiltOnce ==
  [][script = "LizorGun" /\ Len(heap) >= 1 => heap' = heap]_vars

\* Surface lists built by the runs started so far, given the position in the
\* current run.
SystemsBuilt ==
  2 * sims - (IF pc = "setup_with_yag" THEN 2
              ELSE IF pc \in {"trace_with_yag", "calc_with_yag", "display_with_yag",
                              "setup_no_yag"} THEN 1
              ELSE 0)

\* C9 amended: a surface sequence, once built, never changes: no radius of
\* curvature, thickness, glass or diameter of any surface of any system built
\* so far.  A sequence is built by every call of setup_optical_system: two per
\* run, the first with the crystal (object thickness 10), the second without
\* (object thickness 35).
C9_NeverMutated ==
  /\ [][script = "LizorGun"
        => /\ Len(heap') >= Len(heap)
           /\ \A n \in 1..Len(heap) : heap'[n] = heap[n]]_vars
  /\ [](script = "LizorGun"
        => /\ Len(heap) = SystemsBuilt
           /\ Len(keepers) = Len(heap)
           /\ \A n \in 1..Len(heap) :
                /\ Len(heap[n]) = 7
                /\ heap[n][1].Thickness = IF n % 2 = 1 THEN <<10000000, 0>>
                                          ELSE <<35000000, 0>>)

C9_Witness ==
  /\ script = "LizorGun"
  /\ status = "running"
  /\ pc = "prompt"
  /\ sims = 2
  /\ Len(heap) = 4
  /\ heap[1] = heap[3]
  /\ heap[1] # heap[2]

(***************************************************************************)
(*                         Properties of cocuta.py                         *)
(***************************************************************************)

IsTable(element) == element.kind = "table"

\* The tables of the document so far, and what add_table was given for each.
TablesOf(d) == SelectSeq(d, IsTable)
TableCalls == << <<route_data, route_headers>>, <<timeline_data, timeline_headers>> >>

\* Table n of the document is complete: add_table has returned.
TableComplete(n) == n < Len(TablesOf(doc)) \/ pc = "body"

\* C8: every row of route_data has 6 entries, as many as its headers, and
\* every row of timeline_data 5; add_table never addresses a cell outside the
\* table, and the table it leaves has len(data) + 1 rows and len(headers)
\* columns, the headers in row 0 and data[r-1][c] in cell (r, c) for r >= 1.
C8_TablesMatch ==
  /\ Len(route_headers) = 6
  /\ \A n \in 1..Len(route_data) : Len(route_data[n]) = 6
  /\ Len(timeline_headers) = 5
  /\ \A n \in 1..Len(timeline_data) : Len(timeline_data[n]) = 5
  /\ script = "cocuta"
     => /\ status # "crashed"
        /\ Len(TablesOf(doc)) <= Len(TableCalls)
        /\ \A n \in 1..Len(TablesOf(doc)) :
             TableComplete(n)
             => LET t == TablesOf(doc)[n]
                    data == TableCalls[n][1]
                    headers == TableCalls[n][2]
                IN /\ t.rows = Len(data) + 1
                   /\ t.cols = Len(headers)
                   /\ DOMAIN t.cells = (0..Len(data)) \X (0..(Len(headers) - 1))
                   /\ \A c \in 0..(Len(headers) - 1) : t.cells[<<0, c>>] = headers[c + 1]
                   /\ \A r \in 1..Len(data) : \A c \in 0..(Len(headers) - 1) :
                        t.cells[<<r, c>>] = data[r][c + 1]

C8_Witness ==
  /\ script = "cocuta"
  /\ status = "finished"
  /\ saved
  /\ Len(TablesOf(doc)) = 2
  /\ TablesOf(doc)[1].cells[<<10, 5>>] = "Escorted convoys in Chihuahua, military presence in Juárez."
  /\ TablesOf(doc)[2].cells[<<0, 3>>] = "Time"

(***************************************************************************)
(*                    Properties of pathos.py: on_click                    *)
(***************************************************************************)

\* A click on_click acts on: left button, control held, inside the axes.
ClickOnMap(e) ==
  /\ e.button = 1
  /\ e.key = "control"
  /\ e.xdata # <<>>
  /\ e.ydata # <<>>

\* f"{v:.4f}": the nearest multiple of 1e-4 degree
Round4(v) == ((v + 5) \div 10) * 10

\* C11: on_click issues a request exactly for a click with the left button and
\* control held and coordinates inside the axes; any other click issues no
\* request and saves no file.  When the request fails the handler prints the
\* error and returns: no figure, no file, the script still running with the
\* callback connected.  A PNG is saved only when a fetch succeeds, and its name
\* is made of the coordinates of that click.
C11_ClickRequests ==
  [][script = "pathos" /\ pc = "mainloop" /\ run' = run
     => /\ events' = events + 1
           => /\ ClickOnMap(event'[1])
                 => /\ requests' = requests + 1
                    /\ Len(handlers') = Len(handlers) + 1
                    /\ handlers'[Len(handlers')].lon = event'[1].xdata[1]
                    /\ handlers'[Len(handlers')].lat = event'[1].ydata[1]
                    /\ handlers'[Len(handlers')].st = "fetching"
              /\ ~ClickOnMap(event'[1]) => requests' = requests /\ handlers' = handlers
              /\ photos' = photos
        /\ requests' # requests => events' = events + 1 /\ ClickOnMap(event'[1])
        /\ \A n \in 1..Len(handlers) :
             /\ handlers[n].st # "failed" /\ handlers'[n].st = "failed"
                => /\ handlers[n].st = "fetching"
                   /\ printed' = "Error al descargar la nueva imagen satelital"
                   /\ ~handlers'[n].fig_new
                   /\ photos' = photos
                   /\ status' = "running"
                   /\ pc' = "mainloop"
                   /\ connected'
             /\ handlers[n].st # "saved" /\ handlers'[n].st = "saved"
                => /\ handlers[n].st = "fetching"
                   /\ photos' = photos \cup
                        { <<"foto_satelital_", Round4(handlers[n].lat), "_",
                            Round4(handlers[n].lon), "_2025.png">> }
        /\ photos' # photos
           => \E n \in 1..Len(handlers) :
                handlers[n].st = "fetching" /\ handlers'[n].st = "saved"]_vars

\* A failed fetch, then a later click on the still active map whose photo is
\* saved.
C11_Witness ==
  /\ script = "pathos"
  /\ status = "running"
  /\ pc = "mainloop"
  /\ connected
  /\ Len(handlers) = 2
  /\ handlers[1].st = "failed"
  /\ ~handlers[1].fig_new
  /\ handlers[2].st = "saved"
  /\ requests = 3
  /\ photos = { <<"foto_satelital_", 1904330, "_", -9819010, "_2025.png">> }

(***************************************************************************)
(*               Properties of pathos.py: archive without roads            *)
(***************************************************************************)

\* C12: when the extracted archive holds no gis_osm_roads_free_1.shp, the
\* script prints that it was not found, deletes the temporary directory and
\* exits having moved nothing into data/shapefiles; the cache is without the
\* roads shapefile, no temporary directory is left behind, and the next run
\* goes through the download branch, never through the cache branch.
C12_MissingShpCleansUp ==
  /\ [][/\ script = "pathos" /\ status = "running" /\ pc = "find"
        /\ ".shp" \notin archive.members
        => /\ status' = "exited"
           /\ printed' = "No se encontró gis_osm_roads_free_1.shp."
           /\ temp_dir' = "deleted"
           /\ temp_files' = {}
           /\ shapefiles' = shapefiles
           /\ ".shp" \notin shapefiles']_vars
  /\ [][script = "pathos" /\ status = "exited" /\ pc = "find" /\ run' # run
        => /\ ended' = <<"find", "exited">>
           /\ leaked' = leaked
           /\ shapefiles' = shapefiles]_vars
  /\ [](script = "pathos" /\ ended = <<"find", "exited">>
        => \/ pc \in {"config", "makedirs"} /\ ".shp" \notin shapefiles
           \/ pc = "mkdtemp"
           \/ temp_dir # "none")
  /\ [](script = "pathos" /\ ended = <<"find", "exited">>
        => printed # "Shapefile ya existe localmente, usando la versión guardada.")

\* The run after one that found no roads layer is downloading again.
C12_Witness ==
  /\ script = "pathos"
  /\ ended = <<"find", "exited">>
  /\ run = 2
  /\ leaked = 0
  /\ shapefiles = {}
  /\ status = "running"
  /\ pc = "extract"
  /\ downloads = 1
  /\ temp_dir = "exists"

(***************************************************************************)
(*                  Properties of LizorGun.py: the optics                  *)
(***************************************************************************)

\* Start points of the rays of one call: (2i, 2j, 0) for the grid points
\* strictly inside the beam radius.
BeamStarts ==
  { <<2 * q[1], 2 * q[2], 0>> :
      q \in {g \in (-5..5) \X (-5..5) : g[1] * g[1] + g[2] * g[2] < 25} }

\* Keeper n has been handed to trace_rays.
Traced(n) == ~(n = Len(keepers) /\ pc \in {"trace_with_yag", "trace_no_yag"})

\* C13: after a call of trace_rays the ray keeper holds exactly the rays of
\* that call: 69 rays, one for each grid point (i, j) of -5..5 x -5..5 with
\* i*i + j*j < 25, starting at ((i/5)*10, (j/5)*10, 0) with direction (0, 0, 1),
\* none for a grid point on or outside the beam radius; the same rays for every
\* call, and a call changes no other keeper.
C13_RaysOfACall ==
  /\ [](script = "LizorGun"
        => /\ Cardinality(BeamStarts) = 69
           /\ \A n \in 1..Len(keepers) :
                IF Traced(n)
                  THEN /\ Len(keepers[n]) = 69
                       /\ {keepers[n][m].pSource_0 : m \in 1..Len(keepers[n])} = BeamStarts
                       /\ \A m \in 1..Len(keepers[n]) : keepers[n][m].dCos = <<0, 0, 1>>
                  ELSE keepers[n] = <<>>)
  /\ [][script = "LizorGun" /\ pc \in {"trace_with_yag", "trace_no_yag"} /\ pc' # pc
        => /\ Len(keepers') = Len(keepers)
           /\ \A n \in 1..(Len(keepers) - 1) : keepers'[n] = keepers[n]
           /\ Len(keepers'[Len(keepers)]) = 69]_vars

\* Four calls of trace_rays, the last with the rays of the first.
C13_Witness ==
  /\ script = "LizorGun"
  /\ pc = "calc_no_yag"
  /\ sims = 2
  /\ Len(keepers) = 4
  /\ Len(keepers[4]) = 69
  /\ keepers[4] = keepers[1]
  /\ keepers[4][1].pSource_0 = <<-8, -4, 0>>

\* The thickness from the object plane to L1a of a system, in 1e-6; the three
\* thicknesses are whole numbers.
ObjectToLens(A) == A[1].Thickness[1] + A[2].Thickness[1] + A[3].Thickness[1]

\* C14: every system setup_optical_system returns, with or without the
\* crystal, is the 7 surfaces object, YAG entrance, YAG exit, L1a, L1b, L1c,
\* image in this order; the thickness from the object plane to L1a sums to 35
\* in both (10 + 5 + 20 with the crystal, 35 + 0 + 0 without), and the three
\* lens surfaces and the image surface are the same in both.
C14_SevenSurfaces ==
  script = "LizorGun"
  => \A n \in 1..Len(heap) :
       LET A == heap[n]
       IN /\ Len(A) = 7
          /\ A[1].Diameter = <<30000000, 0>> /\ A[1].Rc = <<0, 0>>
          /\ A[2].Diameter = <<10000000, 0>> /\ A[2].Rc = <<0, 0>>
          /\ A[3].Diameter = <<10000000, 0>> /\ A[3].Rc = <<0, 0>>
          /\ A[4].Glass = "BK7" /\ A[4].Rc = <<92847065, 70002484>>
          /\ A[5].Glass = "F2"  /\ A[5].Rc = <<-30716086, -70000159>>
          /\ A[6].Glass = "AIR" /\ A[6].Rc = <<-78197307, -26078505>>
          /\ A[7].Name = "Image Plane" /\ A[7].Diameter = <<100000000, 0>>
          /\ \A k \in 1..3 : A[k].Thickness[2] = 0 /\ A[k].Glass = "AIR"
          /\ ObjectToLens(A) = 35000000
          /\ <<A[1].Thickness[1], A[2].Thickness[1], A[3].Thickness[1]>>
               = IF n % 2 = 1 THEN <<10000000, 5000000, 20000000>>
                              ELSE <<35000000, 0, 0>>
          /\ \A m \in 1..Len(heap) : \A k \in 4..7 : heap[m][k] = A[k]

\* One system with the crystal and one without have been built.
C14_Witness ==
  /\ script = "LizorGun"
  /\ pc = "trace_no_yag"
  /\ Len(heap) = 2
  /\ heap[1][2].Thickness = <<5000000, 0>>
  /\ heap[2][2].Thickness = <<0, 0>>
  /\ heap[1][1].Thickness # heap[2][1].Thickness
  /\ heap[1][4] = heap[2][4]

(***************************************************************************)
(*               Properties of LizorGun.py: the frequency                  *)
(***************************************************************************)

\* C15: the spark frequency is 250 Hz in every state of the command loop and
\* no step changes it; every simulation is computed with frequency 250, and in
\* every run the simulation with the crystal is computed before the one
\* without: the computations alternate, starting with the crystal.
C15_FrequencyFixed ==
  /\ [](script = "LizorGun"
        => /\ frequency = <<250000000, 0>>
           /\ \A n \in 1..Len(calcs) :
                /\ calcs[n].freq = <<250000000, 0>>
                /\ calcs[n].with_yag <=> n % 2 = 1
           /\ Len(calcs) <= 2 * sims
           /\ pc = "prompt" => Len(calcs) = 2 * sims)
  /\ [][script = "LizorGun" => frequency' = frequency]_vars

\* Two complete runs with a line that is no command between them.
C15_Witness ==
  /\ script = "LizorGun"
  /\ status = "running"
  /\ pc = "prompt"
  /\ lines = << <<"b">>, <<>>, <<"B">> >>
  /\ Len(calcs) = 4
  /\ calcs[3].with_yag
  /\ ~calcs[4].with_yag
  /\ calcs[4].freq = frequency

(***************************************************************************)
(*               Properties of pathos.py: the roads of a click             *)
(***************************************************************************)

\* The features of the layer selected by the initial box: within 0.009 degree
\* of (19.0433, -98.1981) in both coordinates.
InInitialBox(r) ==
  /\ -9820710 <= r.lon /\ r.lon <= -9818910
  /\ 1903430 <= r.lat /\ r.lat <= 1905230

InBox(r, b) == b[1] <= r.lon /\ r.lon <= b[3] /\ b[2] <= r.lat /\ r.lat <= b[4]

\* C16: the roads drawn on a click-generated image are roads of the initial
\* box: the module-level road set is narrowed to the initial box once, before
\* the map is shown, on_click draws the roads of that set that lie in the
\* click box, also when the click box reaches beyond the initial box, and
\* on_click never changes the module-level set.
C16_ClickRoadsWithinInitialBox ==
  /\ [](script = "pathos"
        => /\ pc \in {"fetch", "render", "connect", "show", "mainloop"}
              => /\ roads # <<>>
                 /\ \A r \in roads[1] : InInitialBox(r)
           /\ \A n \in 1..Len(handlers) :
                /\ \A r \in handlers[n].new_roads : InInitialBox(r)
                /\ handlers[n].st = "saved"
                   => handlers[n].new_roads
                        = {r \in roads[1] : InBox(r, handlers[n].new_bbox_coords)}
                /\ handlers[n].st # "saved" => handlers[n].new_roads = {})
  /\ [][script = "pathos" /\ roads' # roads
        => pc \in {"load_roads", "bbox"} \/ run' # run]_vars

\* A photo whose box reaches east of the initial box and holds a main road
\* that the initial box does not: that road is not drawn, two others are.
C16_Witness ==
  /\ script = "pathos"
  /\ pc = "mainloop"
  /\ \E n \in 1..Len(handlers) :
       /\ handlers[n].st = "saved"
       /\ handlers[n].new_bbox_coords[3] > -9818910
       /\ \E r \in ShapefileRoads :
            /\ r.fclass = "trunk"
            /\ InBox(r, handlers[n].new_bbox_coords)
            /\ ~InInitialBox(r)
            /\ r \notin handlers[n].new_roads
       /\ Cardinality(handlers[n].new_roads) = 2

====
